---------------------------- MODULE Spec2Model ----------------------------
(***************************************************************************)
(* A model of homework.py: the fitness-tracker module (classes             *)
(* InfoMessage, Training, Running, SportsWalking, Swimming, the function   *)
(* read_package, the function main and the __main__ driver loop).          *)
(*                                                                         *)
(* Numbers.  A Python number is modelled by its exact value, a rational    *)
(* <<n, d>> in lowest terms with d > 0.  The rounding error of binary      *)
(* floating point is not modelled: 0.65 is 13/20, 1.38 is 69/50.           *)
(*                                                                         *)
(* Strings.  A Python str that is printed is modelled as the sequence of   *)
(* its Unicode code points (the message template is not ASCII).  Workout   *)
(* tags and exception names, which are only compared, are TLA+ strings.    *)
(*                                                                         *)
(* Calls.  A call returns [exc |-> e, val |-> v]: exc = "" and the value   *)
(* on a normal return, the exception's class name when it raises.          *)
(***************************************************************************)
EXTENDS Integers, Sequences, FiniteSets

VARIABLES
    TRAINING_TYPE,  \* the module-level dict tag -> class (line 157)
    packages,       \* the driver's list of (tag, data) pairs (line 162)
    idx,            \* how many pairs the for loop has taken (line 167)
    workout_type,   \* the loop variable workout_type (line 167)
    data,           \* the loop variable data (line 167)
    pc,             \* the driver's position
    training,       \* the record bound to `training` (line 170), or None
    stdout,         \* the lines printed so far (line 154)
    exc,            \* the uncaught exception that ended the driver, or NoExc
    call,           \* library use: the last call made, [name, args]
    ret,            \* library use: what the last call returned or raised
    info,           \* library use: the InfoMessage last returned (line 153)
    msg             \* library use: the string last returned by get_message

vars == <<TRAINING_TYPE, packages, idx, workout_type, data, pc, training,
          stdout, exc, call, ret, info, msg>>

---------------------------------------------------------------------------
(* Bounds of the model.                                                    *)

\* The driver's list holds at most this many pairs.
MaxPackages == 2

\* Durations are drawn from 0 .. MaxDuration.
MaxDuration == 2

---------------------------------------------------------------------------
(* Exact rational arithmetic: the value of Python's *, /, +, -, //, **.    *)

Abs(n) == IF n < 0 THEN -n ELSE n

RECURSIVE GCD(_, _)
GCD(a, b) == IF b = 0 THEN a ELSE GCD(b, a % b)

\* The rational n/d (d # 0) in lowest terms with a positive denominator.
Rat(n, d) ==
    LET g == GCD(Abs(n), Abs(d))
        s == IF d < 0 THEN -1 ELSE 1
    IN  <<(s * n) \div g, (s * d) \div g>>

Num(i) == <<i, 1>>

Zero == Num(0)

RIsZero(x) == x[1] = 0

RNeg(x) == <<-x[1], x[2]>>

RAdd(x, y) ==
    LET g == GCD(x[2], y[2])
    IN  Rat(x[1] * (y[2] \div g) + y[1] * (x[2] \div g), (x[2] \div g) * y[2])

RSub(x, y) == RAdd(x, RNeg(y))

\* Cross-reduced before multiplying, so the products stay small.
RMul(x, y) ==
    LET a == Rat(x[1], y[2])
        b == Rat(y[1], x[2])
    IN  Rat(a[1] * b[1], a[2] * b[2])

\* y is not zero.
RDiv(x, y) == RMul(x, Rat(y[2], y[1]))

\* The greatest integer <= x.
RFloor(x) == Num(x[1] \div x[2])

---------------------------------------------------------------------------
(* Python's operators on call results: the left operand is evaluated       *)
(* first and an exception propagates; / and // raise ZeroDivisionError on  *)
(* a zero divisor.                                                         *)

Ok(v) == [exc |-> "", val |-> v]

Raise(e) == [exc |-> e, val |-> Zero]

Lift2(a, b, v) ==
    IF a.exc # "" THEN a ELSE IF b.exc # "" THEN b ELSE v

PyMul(a, b) == Lift2(a, b, Ok(RMul(a.val, b.val)))

PyAdd(a, b) == Lift2(a, b, Ok(RAdd(a.val, b.val)))

PySub(a, b) == Lift2(a, b, Ok(RSub(a.val, b.val)))

\* A division that yields 0 on a zero divisor instead of raising.
PyTrueDiv_guarded(a, b) ==
    Lift2(a, b, IF RIsZero(b.val) THEN Ok(Zero) ELSE Ok(RDiv(a.val, b.val)))

PyTrueDiv(a, b) ==
    Lift2(a, b, IF RIsZero(b.val) THEN Raise("ZeroDivisionError")
                ELSE Ok(RDiv(a.val, b.val)))

PyFloorDiv(a, b) ==
    Lift2(a, b, IF RIsZero(b.val) THEN Raise("ZeroDivisionError")
                ELSE Ok(RFloor(RDiv(a.val, b.val))))

\* a ** n for a natural number n.
RECURSIVE PyPow(_, _)
PyPow(a, n) ==
    IF n = 0 THEN Lift2(a, a, Ok(Num(1))) ELSE PyMul(PyPow(a, n - 1), a)

\* An attribute holding a number, read as an operand.
Attr(i) == Ok(Num(i))

---------------------------------------------------------------------------
(* Class attributes.                                                       *)

Training_LEN_STEP == Rat(65, 100)

\* Swimming without its own LEN_STEP: the attribute of Training.
Swimming_LEN_STEP_inherited == Rat(65, 100)

Swimming_LEN_STEP == Rat(138, 100)

M_IN_KM == 1000

MIN_IN_H == 60

coeff_calorie_1 == 18

coeff_calorie_2 == 20

coeff_walking_1 == Rat(35, 1000)

coeff_walking_2 == 2

coeff_walking_3 == Rat(29, 1000)

coeff_swim_1 == Rat(11, 10)

coeff_swim_2 == 2

\* self.LEN_STEP: Swimming overrides the attribute of Training.
LEN_STEP(self) ==
    IF self.cls = "Swimming" THEN Swimming_LEN_STEP ELSE Training_LEN_STEP

---------------------------------------------------------------------------
(* Records.  None stands for "no object".                                  *)

None == [cls |-> "None"]

Training_init(cls, action, duration, weight) ==
    [cls |-> cls, action |-> action, duration |-> duration, weight |-> weight]

Running_init(action, duration, weight) ==
    Training_init("Running", action, duration, weight)

SportsWalking_init(action, duration, weight, height) ==
    [cls |-> "SportsWalking", action |-> action, duration |-> duration,
     weight |-> weight, height |-> height]

Swimming_init(action, duration, weight, length_pool, count_pool) ==
    [cls |-> "Swimming", action |-> action, duration |-> duration,
     weight |-> weight, length_pool |-> length_pool,
     count_pool |-> count_pool]

---------------------------------------------------------------------------
(* Methods.                                                                *)

Training_get_distance(self) ==
    PyTrueDiv(PyMul(Attr(self.action), Ok(LEN_STEP(self))), Attr(M_IN_KM))

Swimming_get_distance(self) ==
    PyTrueDiv(PyMul(Attr(self.action), Ok(LEN_STEP(self))), Attr(M_IN_KM))

get_distance(self) ==
    IF self.cls = "Swimming" THEN Swimming_get_distance(self)
    ELSE Training_get_distance(self)

Training_get_mean_speed(self) ==
    PyTrueDiv(get_distance(self), Attr(self.duration))

\* Swimming without its own get_mean_speed: the method of Training.
Swimming_get_mean_speed_inherited(self) ==
    PyTrueDiv(get_distance(self), Attr(self.duration))

Swimming_get_mean_speed(self) ==
    PyTrueDiv(PyTrueDiv(PyMul(Attr(self.length_pool), Attr(self.count_pool)),
                        Attr(M_IN_KM)),
              Attr(self.duration))

get_mean_speed(self) ==
    IF self.cls = "Swimming" THEN Swimming_get_mean_speed(self)
    ELSE Training_get_mean_speed(self)

Training_get_spent_calories(self) == Raise("NotImplementedError")

\* The running formula without the conversion of hours to minutes.
Running_get_spent_calories_in_hours(self) ==
    PyMul(PyTrueDiv(PyMul(PySub(PyMul(Attr(coeff_calorie_1),
                                      get_mean_speed(self)),
                                Attr(coeff_calorie_2)),
                          Attr(self.weight)),
                    Attr(M_IN_KM)),
          Attr(self.duration))

Running_get_spent_calories(self) ==
    PyMul(PyTrueDiv(PyMul(PySub(PyMul(Attr(coeff_calorie_1),
                                      get_mean_speed(self)),
                                Attr(coeff_calorie_2)),
                          Attr(self.weight)),
                    Attr(M_IN_KM)),
          PyMul(Attr(self.duration), Attr(MIN_IN_H)))

\* The walking formula with / in the place of //.
SportsWalking_get_spent_calories_true_division(self) ==
    PyMul(PyAdd(PyMul(Ok(coeff_walking_1), Attr(self.weight)),
                PyMul(PyMul(PyTrueDiv(PyPow(get_mean_speed(self),
                                            coeff_walking_2),
                                      Attr(self.height)),
                            Ok(coeff_walking_3)),
                      Attr(self.weight))),
          PyMul(Attr(self.duration), Attr(MIN_IN_H)))

SportsWalking_get_spent_calories(self) ==
    PyMul(PyAdd(PyMul(Ok(coeff_walking_1), Attr(self.weight)),
                PyMul(PyMul(PyFloorDiv(PyPow(get_mean_speed(self),
                                             coeff_walking_2),
                                       Attr(self.height)),
                            Ok(coeff_walking_3)),
                      Attr(self.weight))),
          PyMul(Attr(self.duration), Attr(MIN_IN_H)))

\* The swimming formula on the mean speed of Training (distance over
\* duration) in the place of the pool's.
Swimming_get_spent_calories_step_speed(self) ==
    PyMul(PyMul(PyAdd(Training_get_mean_speed(self), Ok(coeff_swim_1)),
                Attr(coeff_swim_2)),
          Attr(self.weight))

Swimming_get_spent_calories(self) ==
    PyMul(PyMul(PyAdd(get_mean_speed(self), Ok(coeff_swim_1)),
                Attr(coeff_swim_2)),
          Attr(self.weight))

get_spent_calories(self) ==
    CASE self.cls = "Running" -> Running_get_spent_calories(self)
      [] self.cls = "SportsWalking" -> SportsWalking_get_spent_calories(self)
      [] self.cls = "Swimming" -> Swimming_get_spent_calories(self)
      [] OTHER -> Training_get_spent_calories(self)

---------------------------------------------------------------------------
(* Strings as code points, and str.format's fixed-point conversion.        *)

Swimming_name == <<83, 119, 105, 109, 109, 105, 110, 103>>

Running_name == <<82, 117, 110, 110, 105, 110, 103>>

SportsWalking_name ==
    <<83, 112, 111, 114, 116, 115, 87, 97, 108, 107, 105, 110, 103>>

Training_name == <<84, 114, 97, 105, 110, 105, 110, 103>>

\* self.__class__.__name__
ClassName(self) ==
    CASE self.cls = "Swimming" -> Swimming_name
      [] self.cls = "Running" -> Running_name
      [] self.cls = "SportsWalking" -> SportsWalking_name
      [] OTHER -> Training_name

\* The decimal digits of a natural number.
RECURSIVE Digits(_)
Digits(n) ==
    IF n < 10 THEN <<48 + n>> ELSE Digits(n \div 10) \o <<48 + (n % 10)>>

\* x >= 0 rounded to the nearest integer, a tie to the even one.
RoundHalfEven(x) ==
    LET q == x[1] \div x[2]
        r == x[1] % x[2]
    IN  IF 2 * r < x[2] THEN q
        ELSE IF 2 * r > x[2] THEN q + 1
        ELSE IF q % 2 = 0 THEN q ELSE q + 1

\* format(x, "<sign>0.3f"): the sign option is " " (a space before a
\* number that is not negative) or "-" (nothing before it); a negative
\* number gets "-" under both.  Then the integer part, ".", three digits.
FormatF3(x, sign) ==
    LET neg == x[1] < 0
        scaled == RoundHalfEven(RMul(Num(1000), <<Abs(x[1]), x[2]>>))
        ip == scaled \div 1000
        fp == scaled % 1000
        prefix == IF neg THEN <<45>> ELSE IF sign = " " THEN <<32>> ELSE <<>>
    IN  prefix \o Digits(ip) \o <<46>>
        \o <<48 + (fp \div 100), 48 + ((fp \div 10) % 10), 48 + (fp % 10)>>

---------------------------------------------------------------------------
(* InfoMessage.                                                            *)

InfoMessage_init(training_type, duration, distance, speed, calories) ==
    [cls |-> "InfoMessage", training_type |-> training_type,
     duration |-> duration, distance |-> distance, speed |-> speed,
     calories |-> calories]

\* The literal parts of InfoMessage.message, in order (lines 13-17).  In
\* Latin transliteration: "Tip trenirovki: ", "; Dlitel'nost':",
\* " ch.; Distantsiya:", " km; Sr. skorost':", " km/ch; Potracheno kkal: ",
\* ".".
message_type ==
    <<1058, 1080, 1087, 32, 1090, 1088, 1077, 1085, 1080, 1088, 1086, 1074,
      1082, 1080, 58, 32>>

message_duration ==
    <<59, 32, 1044, 1083, 1080, 1090, 1077, 1083, 1100, 1085, 1086, 1089,
      1090, 1100, 58>>

message_distance ==
    <<32, 1095, 46, 59, 32, 1044, 1080, 1089, 1090, 1072, 1085, 1094, 1080,
      1103, 58>>

message_speed ==
    <<32, 1082, 1084, 59, 32, 1057, 1088, 46, 32, 1089, 1082, 1086, 1088,
      1086, 1089, 1090, 1100, 58>>

message_calories ==
    <<32, 1082, 1084, 47, 1095, 59, 32, 1055, 1086, 1090, 1088, 1072, 1095,
      1077, 1085, 1086, 32, 1082, 1082, 1072, 1083, 58, 32>>

message_end == <<46>>

\* The format specifications of the template's numeric fields.
duration_sign == " "

distance_sign == " "

speed_sign == " "

calories_sign == "-"

\* A template whose numeric fields are all ".3f": no sign option.
get_message_no_sign_option(self) ==
    message_type \o self.training_type
    \o message_duration \o FormatF3(self.duration, "-")
    \o message_distance \o FormatF3(self.distance, "-")
    \o message_speed \o FormatF3(self.speed, "-")
    \o message_calories \o FormatF3(self.calories, "-")
    \o message_end

get_message(self) ==
    message_type \o self.training_type
    \o message_duration \o FormatF3(self.duration, duration_sign)
    \o message_distance \o FormatF3(self.distance, distance_sign)
    \o message_speed \o FormatF3(self.speed, speed_sign)
    \o message_calories \o FormatF3(self.calories, calories_sign)
    \o message_end

---------------------------------------------------------------------------
(* Training.show_training_info, read_package.                              *)

RaiseObj(e) == [exc |-> e, val |-> None]

show_training_info(self) ==
    LET distance == get_distance(self)
        mean_speed == get_mean_speed(self)
        spent_calories == get_spent_calories(self)
    IN  IF distance.exc # "" THEN RaiseObj(distance.exc)
        ELSE IF mean_speed.exc # "" THEN RaiseObj(mean_speed.exc)
        ELSE IF spent_calories.exc # "" THEN RaiseObj(spent_calories.exc)
        ELSE Ok(InfoMessage_init(ClassName(self), Num(self.duration),
                                 distance.val, mean_speed.val,
                                 spent_calories.val))

\* The dict with the classes of RUN and WLK exchanged.
TRAINING_TYPE_exchanged ==
    [t \in {"SWM", "RUN", "WLK"} |->
        CASE t = "SWM" -> "Swimming"
          [] t = "RUN" -> "SportsWalking"
          [] t = "WLK" -> "Running"]

\* The dict literal of line 157.
TRAINING_TYPE_literal ==
    [t \in {"SWM", "RUN", "WLK"} |->
        CASE t = "SWM" -> "Swimming"
          [] t = "RUN" -> "Running"
          [] t = "WLK" -> "SportsWalking"]

\* cls(*d): the sequence spread over the constructor's parameters; a
\* sequence of another length raises TypeError.
Construct(cls, d) ==
    CASE cls = "Running" ->
            IF Len(d) = 3 THEN Ok(Running_init(d[1], d[2], d[3]))
            ELSE RaiseObj("TypeError")
      [] cls = "SportsWalking" ->
            IF Len(d) = 4 THEN Ok(SportsWalking_init(d[1], d[2], d[3], d[4]))
            ELSE RaiseObj("TypeError")
      [] cls = "Swimming" ->
            IF Len(d) = 5
            THEN Ok(Swimming_init(d[1], d[2], d[3], d[4], d[5]))
            ELSE RaiseObj("TypeError")

read_package(table, tag, d) ==
    IF tag \notin DOMAIN table THEN RaiseObj("KeyError")
    ELSE Construct(table[tag], d)

---------------------------------------------------------------------------
(* The inputs.                                                             *)

Tags == {"SWM", "RUN", "WLK", "XYZ"}

Actions == {-720, 0, 720, 9000, 15000}

Durations == 0 .. MaxDuration

Weights == {75, 80}

\* The fourth value: height (SportsWalking) or length_pool (Swimming).
Fourths == {0, 10, 25, 180}

\* The fifth value: count_pool.
Fifths == {40}

Data3 == {<<a, t, w>> : a \in Actions, t \in Durations, w \in Weights}

Data4 == {d \o <<h>> : d \in Data3, h \in Fourths}

Data5 == {d \o <<c>> : d \in Data4, c \in Fifths}

DataInputs == Data3 \cup Data4 \cup Data5

\* The pairs the driver's list is made of: the three of lines 163-165,
\* an unsupported tag, a zero duration, a negative step count, a zero
\* height and a sequence one value short.
PackagePool ==
    { <<"SWM", <<720, 1, 80, 25, 40>>>>,
      <<"RUN", <<15000, 1, 75>>>>,
      <<"WLK", <<9000, 1, 75, 180>>>>,
      <<"XYZ", <<720, 1, 80>>>>,
      <<"RUN", <<15000, 0, 75>>>>,
      <<"RUN", <<-720, 2, 75>>>>,
      <<"WLK", <<9000, 1, 75, 0>>>>,
      <<"WLK", <<9000, 1, 75>>>> }

PackageLists ==
    UNION {[1 .. n -> PackagePool] : n \in 0 .. MaxPackages}

---------------------------------------------------------------------------
(* The __main__ driver (lines 161-171) and main (lines 151-154).           *)

NoExc == [type |-> "", arg |-> <<>>]

NoCall == [name |-> "", args |-> <<>>]

\* A tag's characters.
Chars(tag) ==
    CASE tag = "SWM" -> <<83, 87, 77>>
      [] tag = "RUN" -> <<82, 85, 78>>
      [] tag = "WLK" -> <<87, 76, 75>>
      [] tag = "XYZ" -> <<88, 89, 90>>

\* The f-string of line 169; in Latin transliteration
\* 'Trenirovka tipa "<tag>" ne podderzhivaetsya'.
UnsupportedMessage(tag) ==
    <<1058, 1088, 1077, 1085, 1080, 1088, 1086, 1074, 1082, 1072, 32, 1090,
      1080, 1087, 1072, 32, 34>>
    \o Chars(tag)
    \o <<34, 32, 1085, 1077, 32, 1087, 1086, 1076, 1076, 1077, 1088, 1078,
         1080, 1074, 1072, 1077, 1090, 1089, 1103>>

Init ==
    /\ TRAINING_TYPE = TRAINING_TYPE_literal
    /\ packages \in PackageLists
    /\ idx = 0
    /\ workout_type = ""
    /\ data = <<>>
    /\ pc = "for"
    /\ training = None
    /\ stdout = <<>>
    /\ exc = NoExc
    /\ call = NoCall
    /\ ret = Ok(Zero)
    /\ info = None
    /\ msg = <<>>

\* Line 167: the loop takes the next pair, or ends.
ForNext ==
    /\ pc = "for"
    /\ IF idx < Len(packages)
       THEN /\ idx' = idx + 1
            /\ workout_type' = packages[idx + 1][1]
            /\ data' = packages[idx + 1][2]
            /\ pc' = "check"
       ELSE /\ pc' = "exit"
            /\ UNCHANGED <<idx, workout_type, data>>
    /\ UNCHANGED <<TRAINING_TYPE, packages, training, stdout, exc, call, ret,
                   info, msg>>

\* A driver that skips an unsupported pair and goes on with the next.
CheckSupported_skips ==
    /\ pc = "check"
    /\ pc' = IF workout_type \notin DOMAIN TRAINING_TYPE THEN "for" ELSE "read"
    /\ UNCHANGED <<TRAINING_TYPE, packages, idx, workout_type, data, training,
                   stdout, exc, call, ret, info, msg>>

\* Lines 168-169: an unsupported tag raises KeyError, which nothing
\* catches: the interpreter ends.
CheckSupported ==
    /\ pc = "check"
    /\ IF workout_type \notin DOMAIN TRAINING_TYPE
       THEN /\ exc' = [type |-> "KeyError",
                       arg |-> UnsupportedMessage(workout_type)]
            /\ pc' = "aborted"
       ELSE /\ pc' = "read"
            /\ UNCHANGED exc
    /\ UNCHANGED <<TRAINING_TYPE, packages, idx, workout_type, data, training,
                   stdout, call, ret, info, msg>>

\* Line 170.
ReadPackage ==
    /\ pc = "read"
    /\ LET r == read_package(TRAINING_TYPE, workout_type, data)
       IN  IF r.exc # ""
           THEN /\ exc' = [type |-> r.exc, arg |-> <<>>]
                /\ pc' = "aborted"
                /\ UNCHANGED training
           ELSE /\ training' = r.val
                /\ pc' = "main"
                /\ UNCHANGED exc
    /\ UNCHANGED <<TRAINING_TYPE, packages, idx, workout_type, data, stdout,
                   call, ret, info, msg>>

\* Line 171 with lines 151-154: main(training) prints one line, or an
\* exception of show_training_info ends the interpreter.
Main ==
    /\ pc = "main"
    /\ LET r == show_training_info(training)
       IN  IF r.exc # ""
           THEN /\ exc' = [type |-> r.exc, arg |-> <<>>]
                /\ pc' = "aborted"
                /\ UNCHANGED stdout
           ELSE /\ stdout' = Append(stdout, get_message(r.val))
                /\ pc' = "for"
                /\ UNCHANGED exc
    /\ UNCHANGED <<TRAINING_TYPE, packages, idx, workout_type, data, training,
                   call, ret, info, msg>>

Next == ForNext \/ CheckSupported \/ ReadPackage \/ Main

Spec == Init /\ [][Next]_vars

---------------------------------------------------------------------------
(* The module used as a library: one record is built by read_package and   *)
(* its methods are called any number of times, in any order.               *)

InitApi ==
    /\ TRAINING_TYPE = TRAINING_TYPE_literal
    /\ packages = <<>>
    /\ idx = 0
    /\ workout_type = ""
    /\ data = <<>>
    /\ pc = "lib"
    /\ training = None
    /\ stdout = <<>>
    /\ exc = NoExc
    /\ call = NoCall
    /\ ret = Ok(Zero)
    /\ info = None
    /\ msg = <<>>

Method(name) == [name |-> name, args |-> <<>>]

\* training = read_package(tag, d), the session's first call.
CallReadPackage ==
    /\ pc = "lib"
    /\ call = NoCall
    /\ \E tag \in Tags, d \in DataInputs :
          LET r == read_package(TRAINING_TYPE, tag, d)
          IN  /\ call' = [name |-> "read_package", args |-> <<tag, d>>]
              /\ ret' = r
              /\ training' = r.val
    /\ UNCHANGED <<TRAINING_TYPE, packages, idx, workout_type, data, pc,
                   stdout, exc, info, msg>>

CallGetDistance ==
    /\ pc = "lib"
    /\ training # None
    /\ call' = Method("get_distance")
    /\ ret' = get_distance(training)
    /\ UNCHANGED <<TRAINING_TYPE, packages, idx, workout_type, data, pc,
                   training, stdout, exc, info, msg>>

CallGetMeanSpeed ==
    /\ pc = "lib"
    /\ training # None
    /\ call' = Method("get_mean_speed")
    /\ ret' = get_mean_speed(training)
    /\ UNCHANGED <<TRAINING_TYPE, packages, idx, workout_type, data, pc,
                   training, stdout, exc, info, msg>>

CallGetSpentCalories ==
    /\ pc = "lib"
    /\ training # None
    /\ call' = Method("get_spent_calories")
    /\ ret' = get_spent_calories(training)
    /\ UNCHANGED <<TRAINING_TYPE, packages, idx, workout_type, data, pc,
                   training, stdout, exc, info, msg>>

\* A show_training_info that converts self.duration to minutes in place.
CallShowTrainingInfo_in_place ==
    /\ pc = "lib"
    /\ training # None
    /\ call' = Method("show_training_info")
    /\ LET r == show_training_info(training)
       IN  /\ ret' = r
           /\ info' = IF r.exc = "" THEN r.val ELSE info
    /\ training' = [training EXCEPT
                       !.duration = IF @ <= MaxDuration THEN @ * MIN_IN_H
                                    ELSE @]
    /\ UNCHANGED <<TRAINING_TYPE, packages, idx, workout_type, data, pc,
                   stdout, exc, msg>>

\* info = training.show_training_info(): info is bound on a normal return.
CallShowTrainingInfo ==
    /\ pc = "lib"
    /\ training # None
    /\ call' = Method("show_training_info")
    /\ LET r == show_training_info(training)
       IN  /\ ret' = r
           /\ info' = IF r.exc = "" THEN r.val ELSE info
    /\ UNCHANGED <<TRAINING_TYPE, packages, idx, workout_type, data, pc,
                   training, stdout, exc, msg>>

\* info.get_message()
CallGetMessage ==
    /\ pc = "lib"
    /\ info # None
    /\ call' = Method("get_message")
    /\ ret' = Ok(get_message(info))
    /\ msg' = get_message(info)
    /\ UNCHANGED <<TRAINING_TYPE, packages, idx, workout_type, data, pc,
                   training, stdout, exc, info>>

NextApi ==
    \/ CallReadPackage
    \/ CallGetDistance
    \/ CallGetMeanSpeed
    \/ CallGetSpentCalories
    \/ CallShowTrainingInfo
    \/ CallGetMessage

SpecApi == InitApi /\ [][NextApi]_vars

---------------------------------------------------------------------------
(* What the claims say, in the claims' own terms.                          *)

\* The tags the specification calls recognized, and the number of values
\* each variant takes.
Recognized == {"SWM", "RUN", "WLK"}

Arity(tag) == CASE tag = "SWM" -> 5 [] tag = "RUN" -> 3 [] tag = "WLK" -> 4

\* A pair with a recognized tag and well-formed data: the right number of
\* values, a duration that is not zero and, for walking, a height that is
\* not zero.
WellFormedPair(p) ==
    /\ p[1] \in Recognized
    /\ Len(p[2]) = Arity(p[1])
    /\ p[2][2] # 0
    /\ p[1] = "WLK" => p[2][4] # 0

Terminated == pc \in {"exit", "aborted"}

\* x < y for rationals.
RLess(x, y) == x[1] * y[2] < y[1] * x[2]

RecognizedPairs == {k \in 1 .. Len(packages) : packages[k][1] \in Recognized}

\* The Summary of the k-th pair of the driver's list.
SummaryOf(k) ==
    show_training_info(
        read_package(TRAINING_TYPE_literal, packages[k][1], packages[k][2]).val
    ).val

\* A number with exactly three decimal digits and nothing before the
\* digits but the minus sign of a negative number: ".3f".
Fixed3(x) == FormatF3(x, "-")

\* ' 0.3f': as Fixed3, with a space in the place of the sign when the
\* number is not negative.
SignedFixed3(x) == IF x[1] < 0 THEN Fixed3(x) ELSE <<32>> \o Fixed3(x)

\* The line of section 4.2 of the specification:
\* "Workout type: {type}; Duration: {duration:.3f} h.; Distance:
\* {distance:.3f} km; Avg speed: {speed:.3f} km/h; Calories burned:
\* {calories:.3f}."
SpecTemplateLine(s) ==
    <<87, 111, 114, 107, 111, 117, 116, 32, 116, 121, 112, 101, 58, 32>>
    \o s.training_type
    \o <<59, 32, 68, 117, 114, 97, 116, 105, 111, 110, 58, 32>>
    \o Fixed3(s.duration)
    \o <<32, 104, 46, 59, 32, 68, 105, 115, 116, 97, 110, 99, 101, 58, 32>>
    \o Fixed3(s.distance)
    \o <<32, 107, 109, 59, 32, 65, 118, 103, 32, 115, 112, 101, 101, 100,
         58, 32>>
    \o Fixed3(s.speed)
    \o <<32, 107, 109, 47, 104, 59, 32, 67, 97, 108, 111, 114, 105, 101,
         115, 32, 98, 117, 114, 110, 101, 100, 58, 32>>
    \o Fixed3(s.calories)
    \o <<46>>

\* The line the source's template gives (lines 13-17), written out:
\* the Russian labels, the first of them followed by a space, the next
\* three ending at their colon and followed by the number in ' 0.3f', the
\* last followed by a space and the number in '0.3f'.
CodeTemplateLine(s) ==
    <<1058, 1080, 1087, 32, 1090, 1088, 1077, 1085, 1080, 1088, 1086, 1074,
      1082, 1080, 58, 32>>
    \o s.training_type
    \o <<59, 32, 1044, 1083, 1080, 1090, 1077, 1083, 1100, 1085, 1086, 1089,
         1090, 1100, 58>>
    \o SignedFixed3(s.duration)
    \o <<32, 1095, 46, 59, 32, 1044, 1080, 1089, 1090, 1072, 1085, 1094,
         1080, 1103, 58>>
    \o SignedFixed3(s.distance)
    \o <<32, 1082, 1084, 59, 32, 1057, 1088, 46, 32, 1089, 1082, 1086, 1088,
         1086, 1089, 1090, 1100, 58>>
    \o SignedFixed3(s.speed)
    \o <<32, 1082, 1084, 47, 1095, 59, 32, 1055, 1086, 1090, 1088, 1072,
         1095, 1077, 1085, 1086, 32, 1082, 1082, 1072, 1083, 58, 32>>
    \o Fixed3(s.calories)
    \o <<46>>

---------------------------------------------------------------------------
(* C1: the driver and an unsupported tag.                                  *)

\* C1 as stated: an unsupported tag does not abort the driver.  When every
\* pair with a recognized tag is well-formed, the driver runs to the end
\* of the list and has then printed one line for each of those pairs.
C1_UnsupportedTagIsSkipped ==
    (Terminated /\ \A k \in RecognizedPairs : WellFormedPair(packages[k]))
        => /\ pc = "exit"
           /\ Len(stdout) = Cardinality(RecognizedPairs)

\* C1 as amended: the first unsupported tag ends the driver with a
\* KeyError.  When the k-th pair is the first with an unsupported tag and
\* the pairs before it are well-formed, the driver never takes a pair
\* after the k-th and never prints more than k - 1 lines, and it
\* terminates aborted by a KeyError at the k-th pair with exactly the
\* k - 1 lines of the pairs before it printed.
C1_UnsupportedTagAborts ==
    \A k \in 1 .. Len(packages) :
        (/\ packages[k][1] \notin Recognized
         /\ \A j \in 1 .. (k - 1) : WellFormedPair(packages[j]))
            => /\ idx <= k
               /\ Len(stdout) <= k - 1
               /\ pc # "exit"
               /\ pc = "aborted"
                    => /\ exc.type = "KeyError"
                       /\ idx = k
                       /\ Len(stdout) = k - 1

\* The driver was aborted by the KeyError of an unsupported tag while a
\* well-formed pair with a recognized tag was still to come.
C1_Witness ==
    /\ pc = "aborted"
    /\ exc.type = "KeyError"
    /\ workout_type \notin Recognized
    /\ idx < Len(packages)
    /\ WellFormedPair(packages[idx + 1])

---------------------------------------------------------------------------
(* C3: the printed line.                                                   *)

\* C3 as stated, read for well-formed data: every dispatched pair gets
\* exactly one line, so the driver is never aborted at a well-formed
\* pair, and every line is the template of section 4.2.
C3_LineInSpecTemplate ==
    /\ pc \in {"for", "exit"} => Len(stdout) = idx
    /\ pc = "aborted" => ~WellFormedPair(<<workout_type, data>>)
    /\ \A k \in 1 .. Len(stdout) : stdout[k] = SpecTemplateLine(SummaryOf(k))

\* C3 as amended: every dispatched pair for which show_training_info
\* raises no error gets exactly one line; the only other way a dispatched
\* pair ends is a ZeroDivisionError, of a zero duration or a zero height,
\* which ends the driver with no line for that pair; and every line is
\* the source's template: Russian labels, duration, distance and speed in
\* ' 0.3f' right after the label's colon, calories in '0.3f' after a space.
C3_LineInCodeTemplate ==
    /\ pc \in {"for", "exit"} => Len(stdout) = idx
    /\ pc \in {"check", "read", "main", "aborted"} => Len(stdout) = idx - 1
    /\ pc = "aborted" =>
          /\ exc.type \in {"KeyError", "TypeError", "ZeroDivisionError"}
          /\ exc.type = "ZeroDivisionError"
                => \/ data[2] = 0
                   \/ workout_type = "WLK" /\ data[4] = 0
    /\ pc = "main" /\ WellFormedPair(<<workout_type, data>>)
          => show_training_info(training).exc = ""
    /\ \A k \in 1 .. Len(stdout) : stdout[k] = CodeTemplateLine(SummaryOf(k))

\* Two lines are printed, the second for a record with a negative step
\* count: its distance and speed are printed with a minus sign.
C3_Witness ==
    /\ pc = "for"
    /\ idx = 2
    /\ Len(stdout) = 2
    /\ packages[2][2][1] < 0

---------------------------------------------------------------------------
(* C2: read_package.                                                       *)

\* C2: read_package(tag, d) returns a Swimming record for SWM and five
\* values, a Running record for RUN and three, a SportsWalking record for
\* WLK and four, the values assigned in order to action, duration, weight
\* and then height, or length_pool and count_pool; for any other tag it
\* raises KeyError and no record is built.
C2_ReadPackageDispatch ==
    call.name = "read_package" =>
        LET tag == call.args[1]
            d == call.args[2]
        IN  /\ (tag = "SWM" /\ Len(d) = 5) =>
                  /\ ret.exc = ""
                  /\ training = [cls |-> "Swimming", action |-> d[1],
                                 duration |-> d[2], weight |-> d[3],
                                 length_pool |-> d[4], count_pool |-> d[5]]
            /\ (tag = "RUN" /\ Len(d) = 3) =>
                  /\ ret.exc = ""
                  /\ training = [cls |-> "Running", action |-> d[1],
                                 duration |-> d[2], weight |-> d[3]]
            /\ (tag = "WLK" /\ Len(d) = 4) =>
                  /\ ret.exc = ""
                  /\ training = [cls |-> "SportsWalking", action |-> d[1],
                                 duration |-> d[2], weight |-> d[3],
                                 height |-> d[4]]
            /\ tag \notin Recognized =>
                  /\ ret.exc = "KeyError"
                  /\ training = None

\* read_package("WLK", <<9000, 1, 75, 180>>) has returned a walking record.
C2_Witness ==
    /\ call = [name |-> "read_package", args |-> <<"WLK", <<9000, 1, 75, 180>>>>]
    /\ training.cls = "SportsWalking"
    /\ training.height = 180

---------------------------------------------------------------------------
(* C4 - C8: the formulas.                                                  *)

Called(name) == call.name = name /\ training # None

C5_MeanSpeedFormula ==
    (Called("get_mean_speed") /\ training.duration > 0) =>
        /\ ret.exc = ""
        /\ training.cls \in {"Running", "SportsWalking"} =>
              ret.val = RDiv(get_distance(training).val,
                             Num(training.duration))
        /\ training.cls = "Swimming" =>
              /\ ret.val = Rat(training.length_pool * training.count_pool,
                               1000 * training.duration)
              /\ \A a \in Actions :
                    get_mean_speed([training EXCEPT !.action = a]) = ret

\* get_mean_speed() of a Swimming record with a positive duration and
\* pool has returned a speed that is not zero.
C5_Witness ==
    /\ Called("get_mean_speed")
    /\ training.cls = "Swimming"
    /\ training.duration > 0
    /\ training.action = 0
    /\ ret.exc = ""
    /\ RLess(Zero, ret.val)

\* The value of the walking formula of C6 for mean speed v.
WalkingCalories(v, weight, height, duration) ==
    RMul(RAdd(RMul(Rat(35, 1000), Num(weight)),
              RMul(RMul(RFloor(RDiv(RMul(v, v), Num(height))),
                        Rat(29, 1000)),
                   Num(weight))),
         Num(duration * 60))

\* C6: for SportsWalking with positive duration and height,
\* get_spent_calories() is (0.035 * weight + floor(mean_speed^2 / height)
\* * 0.029 * weight) * (duration * 60); when mean_speed^2 < height it is
\* 0.035 * weight * duration * 60, which for action 9000, duration 1,
\* weight 75, height 180 is 157.5.
C6_WalkingCalories ==
    (/\ Called("get_spent_calories")
     /\ training.cls = "SportsWalking"
     /\ training.duration > 0
     /\ training.height > 0) =>
        LET v == Rat(training.action * 65, 100 * 1000 * training.duration)
        IN  /\ ret.exc = ""
            /\ ret.val = WalkingCalories(v, training.weight, training.height,
                                         training.duration)
            /\ RLess(RMul(v, v), Num(training.height)) =>
                  ret.val = Rat(35 * training.weight * training.duration * 60,
                                1000)
            /\ training = [cls |-> "SportsWalking", action |-> 9000,
                           duration |-> 1, weight |-> 75, height |-> 180]
                  => ret.val = Rat(1575, 10)

\* get_spent_calories() of the walking record of the claim's example
\* has returned.
C6_Witness ==
    /\ Called("get_spent_calories")
    /\ training = [cls |-> "SportsWalking", action |-> 9000, duration |-> 1,
                   weight |-> 75, height |-> 180]
    /\ ret = Ok(Rat(1575, 10))

\* C7: for Running with a positive duration, get_spent_calories() is
\* (18 * mean_speed - 20) * weight / 1000 * (duration * 60) with
\* mean_speed = action * 0.65 / 1000 / duration; for action 15000,
\* duration 1, weight 75 the mean speed is 9.75 and the calories are
\* (18 * 9.75 - 20) * 75 / 1000 * 60 = 699.75.
C7_RunningCalories ==
    (/\ Called("get_spent_calories")
     /\ training.cls = "Running"
     /\ training.duration > 0) =>
        LET v == Rat(training.action * 65, 100 * 1000 * training.duration)
        IN  /\ ret.exc = ""
            /\ ret.val =
                  RMul(RDiv(RMul(RSub(RMul(Num(18), v), Num(20)),
                                 Num(training.weight)),
                            Num(1000)),
                       Num(training.duration * 60))
            /\ training = [cls |-> "Running", action |-> 15000,
                           duration |-> 1, weight |-> 75]
                  => /\ get_mean_speed(training) = Ok(Rat(975, 100))
                     /\ ret.val = Rat(69975, 100)

\* get_spent_calories() of the running record of the claim's example
\* has returned.
C7_Witness ==
    /\ Called("get_spent_calories")
    /\ training = [cls |-> "Running", action |-> 15000, duration |-> 1,
                   weight |-> 75]
    /\ ret = Ok(Rat(69975, 100))

\* C8: for Swimming with a positive duration, get_spent_calories() is
\* (mean_speed + 1.1) * 2 * weight with mean_speed = length_pool *
\* count_pool / 1000 / duration, the same for every action; for action
\* 720, duration 1, weight 80, length_pool 25, count_pool 40 it is 336.
C8_SwimmingCalories ==
    (/\ Called("get_spent_calories")
     /\ training.cls = "Swimming"
     /\ training.duration > 0) =>
        LET v == Rat(training.length_pool * training.count_pool,
                     1000 * training.duration)
        IN  /\ ret.exc = ""
            /\ ret.val = RMul(RMul(RAdd(v, Rat(11, 10)), Num(2)),
                              Num(training.weight))
            /\ \A a \in Actions :
                  get_spent_calories([training EXCEPT !.action = a]) = ret
            /\ training = [cls |-> "Swimming", action |-> 720,
                           duration |-> 1, weight |-> 80,
                           length_pool |-> 25, count_pool |-> 40]
                  => ret.val = Num(336)

\* get_spent_calories() of the swimming record of the claim's example
\* has returned.
C8_Witness ==
    /\ Called("get_spent_calories")
    /\ training = [cls |-> "Swimming", action |-> 720, duration |-> 1,
                   weight |-> 80, length_pool |-> 25, count_pool |-> 40]
    /\ ret = Ok(Num(336))

---------------------------------------------------------------------------
(* C9, C10.                                                                *)

Methods ==
    {"get_distance", "get_mean_speed", "get_spent_calories",
     "show_training_info", "get_message"}

\* C9: a call of get_distance, get_mean_speed, get_spent_calories,
\* show_training_info or get_message leaves every field of the record and
\* the tag table as they were, and a repeated show_training_info or
\* get_message returns what the earlier one returned: the same Summary,
\* the same string.
C9_MethodsArePure ==
    [][call'.name \in Methods =>
          /\ training' = training
          /\ TRAINING_TYPE' = TRAINING_TYPE
          /\ (call'.name = "show_training_info" /\ info # None
                 /\ ret'.exc = "") => ret'.val = info
          /\ (call'.name = "get_message" /\ msg # <<>>) => ret'.val = msg]_vars

\* show_training_info() has been called again on a record whose message
\* was already produced.
C9_Witness ==
    /\ call.name = "show_training_info"
    /\ ret.exc = ""
    /\ info # None
    /\ msg # <<>>

\* C10: on a record of any variant with duration 0, get_mean_speed()
\* raises ZeroDivisionError, show_training_info() raises the same error
\* and returns no Summary, and get_distance() returns normally.
C10_ZeroDurationRaises ==
    (training # None /\ training.duration = 0) =>
        /\ call.name = "get_mean_speed" => ret.exc = "ZeroDivisionError"
        /\ call.name = "show_training_info" =>
              /\ ret.exc = "ZeroDivisionError"
              /\ ret.val = None
        /\ call.name = "get_distance" => ret.exc = ""
        /\ info = None
        /\ msg = <<>>

\* show_training_info() of a Swimming record with duration 0 has raised
\* ZeroDivisionError.
C10_Witness ==
    /\ training # None
    /\ training.cls = "Swimming"
    /\ training.duration = 0
    /\ call.name = "show_training_info"
    /\ ret.exc = "ZeroDivisionError"

=============================================================================
